---- MODULE Spec2Model ----
(***************************************************************************)
(* Model of backend/src/routes/policies.js: the insurance-policy routes    *)
(* (create, list active, get by id, update, soft-delete, list deleted,     *)
(* restore) over the insurance_policies table of the Data Store.           *)
(*                                                                         *)
(* A JavaScript string is a sequence of one-character strings.  A request  *)
(* value is a record [t, s]: t is the JavaScript type of the value         *)
(* ("undefined", "null", "false" or "string") and s its characters when it *)
(* is a string.  A decimal number is an integer count of 1/100000 units    *)
(* (fixed point), so that premium * 0.125, * 0.12 and * 0.005 are exact    *)
(* for amounts given with at most two decimals.                            *)
(*                                                                         *)
(* A row holds the text columns, the four dates, the amounts and           *)
(* deleted_at; policy_year, created_at and updated_at are left out.  The   *)
(* Data Store is taken to answer every call: it answers an error (and the  *)
(* handler 500) only for an id filter that is no integer.                  *)
(***************************************************************************)
EXTENDS Integers, Sequences, FiniteSets

\* ------------------------------------------------------------------ bounds
\* rows the lifecycle specification may insert
MaxPolicies == 2
\* rows the field specifications (text, money, dates) may insert
MaxFieldPolicies == 1
\* instants the clock read by new Date() may advance through
MaxTime == 1

\* ------------------------------------------------- JavaScript values
Undefined == [t |-> "undefined", s |-> <<>>]
Null == [t |-> "null", s |-> <<>>]
False == [t |-> "false", s |-> <<>>]
Str(chars) == [t |-> "string", s |-> chars]

Digits == {"0", "1", "2", "3", "4", "5", "6", "7", "8", "9"}
WhiteSpace == {" "}

DigitVal(c) ==
  CASE c = "0" -> 0 [] c = "1" -> 1 [] c = "2" -> 2 [] c = "3" -> 3
    [] c = "4" -> 4 [] c = "5" -> 5 [] c = "6" -> 6 [] c = "7" -> 7
    [] c = "8" -> 8 [] c = "9" -> 9

\* !v : undefined, null, false and '' are falsy, every other string is truthy
Falsy(v) == v.t # "string" \/ v.s = <<>>

\* String(v)
JsString(v) ==
  CASE v.t = "undefined" -> <<"u", "n", "d", "e", "f", "i", "n", "e", "d">>
    [] v.t = "null" -> <<"n", "u", "l", "l">>
    [] v.t = "false" -> <<"f", "a", "l", "s", "e">>
    [] OTHER -> v.s

\* v || '' as used in String(v || '')
OrEmpty(v) == IF Falsy(v) THEN Str(<<>>) ELSE v

RECURSIVE TrimStart(_)
TrimStart(s) ==
  IF s # <<>> /\ Head(s) \in WhiteSpace THEN TrimStart(Tail(s)) ELSE s

RECURSIVE TrimEnd(_)
TrimEnd(s) ==
  IF s # <<>> /\ s[Len(s)] \in WhiteSpace
  THEN TrimEnd(SubSeq(s, 1, Len(s) - 1))
  ELSE s

\* String.prototype.trim
Trim(s) == TrimEnd(TrimStart(s))

\* the longest run of decimal digits s starts with
RECURSIVE DigitRun(_)
DigitRun(s) ==
  IF s # <<>> /\ Head(s) \in Digits
  THEN <<Head(s)>> \o DigitRun(Tail(s))
  ELSE <<>>

RECURSIVE DigitsValue(_)
DigitsValue(s) ==
  IF s = <<>> THEN 0
  ELSE 10 * DigitsValue(SubSeq(s, 1, Len(s) - 1)) + DigitVal(s[Len(s)])

\* ------------------------------------------------------- fixed point
\* two decimals of an amount and three of a rate
FracDigits == 2 + 3
RECURSIVE Pow10(_)
Pow10(n) == IF n = 0 THEN 1 ELSE 10 * Pow10(n - 1)
Scale == Pow10(FracDigits)

NaN == [nan |-> TRUE, v |-> 0]
Num(n) == [nan |-> FALSE, v |-> n]

\* the value of the fraction digits f, in 1/Scale units (digits past the
\* resolution are dropped)
FracValue(f) ==
  LET g == IF Len(f) > FracDigits THEN SubSeq(f, 1, FracDigits) ELSE f
  IN DigitsValue(g) * Pow10(FracDigits - Len(g))

\* parseFloat(v): String(v), leading white space skipped, then the longest
\* prefix that is a decimal literal ([+-] digits [. digits]); NaN when there
\* is none.  Exponents and Infinity are outside the alphabet of the inputs.
\* The parse is a chain of operators, one per part of the literal.
ParseValue(neg, int, frac) ==
  IF int = <<>> /\ frac = <<>> THEN NaN
  ELSE IF neg THEN Num(0 - (DigitsValue(int) * Scale + FracValue(frac)))
  ELSE Num(DigitsValue(int) * Scale + FracValue(frac))

\* the digits of the fraction that s starts with, if it starts with a dot
FracRun(s) == IF s # <<>> /\ Head(s) = "." THEN DigitRun(Tail(s)) ELSE <<>>

ParseAfterInt(neg, s, int) ==
  ParseValue(neg, int, FracRun(SubSeq(s, Len(int) + 1, Len(s))))

ParseUnsigned(neg, s) == ParseAfterInt(neg, s, DigitRun(s))

ParseSigned(s) ==
  IF s # <<>> /\ Head(s) \in {"-", "+"}
  THEN ParseUnsigned(Head(s) = "-", Tail(s))
  ELSE ParseUnsigned(FALSE, s)

ParseFloat(v) == ParseSigned(TrimStart(JsString(v)))

\* x || d for a number x: NaN and 0 are falsy
OrDefault(x, d) == IF x.nan \/ x.v = 0 THEN d ELSE x.v

\* isNaN(s) for a string s, that is Number(s) is NaN: after trimming, s is
\* neither empty nor a whole decimal literal
IsNaN(s) ==
  LET t == Trim(s)
      signed == t # <<>> /\ Head(t) \in {"-", "+"}
      s1 == IF signed THEN Tail(t) ELSE t
      int == DigitRun(s1)
      s2 == SubSeq(s1, Len(int) + 1, Len(s1))
      dotted == s2 # <<>> /\ Head(s2) = "."
      frac == IF dotted THEN DigitRun(Tail(s2)) ELSE <<>>
      rest == IF dotted THEN SubSeq(s2, Len(frac) + 2, Len(s2)) ELSE s2
  IN t # <<>> /\ ((int = <<>> /\ frac = <<>>) \/ rest # <<>>)

\* ------------------------------------------------------------- dates
\* /^\d{4}-\d{2}-\d{2}/ : s starts with four digits, dash, two digits, dash,
\* two digits
DatePrefix(s) ==
  /\ Len(s) >= 10
  /\ \A i \in {1, 2, 3, 4, 6, 7, 9, 10} : s[i] \in Digits
  /\ s[5] = "-"
  /\ s[8] = "-"

\* /^\d{4}-\d{2}-\d{2}$/ : the whole of s is such a date
DateExact(s) == DatePrefix(s) /\ Len(s) = 10

ZeroDate == <<"0", "0", "0", "0", "-", "0", "0", "-", "0", "0">>

\* validateDate with the pattern of formatDate, which has no end anchor
validateDateUnanchored(dateVal) ==
  IF \/ Falsy(dateVal)
     \/ dateVal = Str(JsString(False))
     \/ dateVal = False
     \/ dateVal = Str(ZeroDate)
     \/ dateVal = Str(JsString(Null))
     \/ dateVal = Str(JsString(Undefined))
     \/ Trim(JsString(dateVal)) = <<>>
  THEN Null
  ELSE LET dateStr == Trim(JsString(dateVal))
       IN IF DatePrefix(dateStr) THEN Str(dateStr) ELSE Null

\* validateDate(dateVal): null for the no-date values, otherwise the trimmed
\* string when it is exactly YYYY-MM-DD, otherwise null
validateDate(dateVal) ==
  IF \/ Falsy(dateVal)
     \/ dateVal = Str(JsString(False))
     \/ dateVal = False
     \/ dateVal = Str(ZeroDate)
     \/ dateVal = Str(JsString(Null))
     \/ dateVal = Str(JsString(Undefined))
     \/ Trim(JsString(dateVal)) = <<>>
  THEN Null
  ELSE LET dateStr == Trim(JsString(dateVal))
       IN IF DateExact(dateStr) THEN Str(dateStr) ELSE Null

\* formatDate(dateValue) for the values a date column holds (null or a
\* string): the first ten characters of a string that starts with a date
formatDate(dateValue) ==
  IF Falsy(dateValue) THEN Null
  ELSE IF DatePrefix(dateValue.s) THEN Str(SubSeq(dateValue.s, 1, 10))
  ELSE Null

\* ------------------------------------------------------------ fields
RequiredText == {"assured", "coc_number", "or_number"}
OptionalText == {"address", "policy_number", "policy_type", "model", "make",
                 "body_type", "color", "mv_file_no", "plate_no", "chassis_no",
                 "motor_no"}
TextFields == RequiredText \cup OptionalText
DateFields == {"date_issued", "date_received", "insurance_from_date",
               "insurance_to_date"}
DerivedFields == {"doc_stamps", "e_vat", "lgt", "total_premium"}
MoneyFields == {"premium", "other_charges", "auth_fee"} \cup DerivedFields

\* the rates of the create handler, in thousandths, and the default
\* authentication fee, in hundredths
DocStampsRate == 125
EVatRate == 120
LgtRate == 5
DefaultAuthFee == 5040

\* amount * rate for a rate in thousandths (the thousands of the amount and
\* the rest multiplied apart, to stay within 32 bits)
Times(amount, rate) ==
  (amount \div 1000) * rate + ((amount % 1000) * rate) \div 1000
\* an amount given in hundredths
Cents(c) == c * (Scale \div 100)

\* the text columns of the payload of create and of update: String(x).trim()
\* for assured, coc_number and or_number, String(x || '').trim() for the rest
TextPayload(body) ==
  [f \in TextFields |->
     IF f \in RequiredText THEN Trim(JsString(body.text[f]))
     ELSE Trim(JsString(OrEmpty(body.text[f])))]

DatePayload(body) == [f \in DateFields |-> validateDate(body.dates[f])]

\* the amounts of the payload of create: the rates are applied to the
\* parsed premium
CreateTotals(premiumNum, otherChargesNum, authFeeNum, docStamps, eVat, lgt) ==
  [premium |-> premiumNum, other_charges |-> otherChargesNum,
   auth_fee |-> authFeeNum, doc_stamps |-> docStamps, e_vat |-> eVat,
   lgt |-> lgt,
   total_premium |-> premiumNum + otherChargesNum + docStamps + eVat + lgt
                       + authFeeNum]

CreateRates(premiumNum, otherChargesNum, authFeeNum) ==
  CreateTotals(premiumNum, otherChargesNum, authFeeNum,
               Times(premiumNum, DocStampsRate), Times(premiumNum, EVatRate),
               Times(premiumNum, LgtRate))

CreateMoney(body) ==
  CreateRates(OrDefault(ParseFloat(body.money["premium"]), 0),
              OrDefault(ParseFloat(body.money["other_charges"]), 0),
              OrDefault(ParseFloat(body.money["auth_fee"]),
                        Cents(DefaultAuthFee)))

\* the amounts of the payload of update: every amount is the parsed input
UpdateMoney(body) ==
  [premium |-> OrDefault(ParseFloat(body.money["premium"]), 0),
   other_charges |-> OrDefault(ParseFloat(body.money["other_charges"]), 0),
   auth_fee |-> OrDefault(ParseFloat(body.money["auth_fee"]),
                          Cents(DefaultAuthFee)),
   doc_stamps |-> OrDefault(ParseFloat(body.money["doc_stamps"]), 0),
   e_vat |-> OrDefault(ParseFloat(body.money["e_vat"]), 0),
   lgt |-> OrDefault(ParseFloat(body.money["lgt"]), 0),
   total_premium |-> OrDefault(ParseFloat(body.money["total_premium"]), 0)]

\* deleted_at: <<>> is null, <<t>> the instant t
NoTime == <<>>

\* the row create inserts (deleted_at takes the column's default, null)
CreateRow(body) ==
  [text |-> TextPayload(body), dates |-> DatePayload(body),
   money |-> CreateMoney(body), deleted_at |-> NoTime]

\* the row update leaves: every column of the payload overwritten,
\* deleted_at kept
UpdateRow(row, body) ==
  [text |-> TextPayload(body), dates |-> DatePayload(body),
   money |-> UpdateMoney(body), deleted_at |-> row.deleted_at]

\* the required-field check with or_number and coc_number forgotten
MissingRequiredAssuredOnly(body) == Falsy(body.text["assured"])

\* if (!assured || !coc_number || !or_number)
MissingRequired(body) == \E f \in RequiredText : Falsy(body.text[f])

\* ------------------------------------------------------------- state
VARIABLES
  rows,     \* the insurance_policies table: id -> row
  nextId,   \* the id the store assigns to the next inserted row
  now,      \* the instant new Date() reads
  req,      \* the request handled last
  resp,     \* the response sent to it
  trips     \* history: the ids soft-deleted and restored since, and not
            \* soft-deleted again

vars == <<rows, nextId, now, req, resp, trips>>

\* ------------------------------------------------------------ path ids
DigitChar(d) == CHOOSE c \in Digits : DigitVal(c) = d

RECURSIVE DecimalString(_)
DecimalString(n) ==
  IF n < 10 THEN <<DigitChar(n)>>
  ELSE DecimalString(n \div 10) \o <<DigitChar(n % 10)>>

\* the column id is an integer: the store accepts a filter value that is a
\* run of digits and answers an error for any other text
StoreIdOk(pid) == pid # <<>> /\ DigitRun(pid) = pid
StoreId(pid) == DigitsValue(pid)

\* ------------------------------------------------------------ responses
NoBody ==
  [text |-> [f \in TextFields |-> Undefined],
   dates |-> [f \in DateFields |-> Undefined],
   money |-> [f \in MoneyFields |-> Undefined]]

Request(op, pid, body) == [op |-> op, pid |-> pid, body |-> body]

\* status, the rows of data, policyId (0 when the response has none) and
\* whether the handler issued a Data Store call
Response(status, data, policyId, store) ==
  [status |-> status, data |-> data, policyId |-> policyId, store |-> store]

\* formatDateFields on a selected row: the selected columns (deleted_at is
\* not among them) with the four dates formatted
FormatRow(i) ==
  [id |-> i, text |-> rows[i].text,
   dates |-> [f \in DateFields |-> formatDate(rows[i].dates[f])],
   money |-> rows[i].money]

\* the sequences listing every element of S once
Listings(S) ==
  {s \in [1..Cardinality(S) -> S] : \A i, j \in DOMAIN s : i # j => s[i] # s[j]}

\* ------------------------------------------------------------- filters
\* GET / without its filter
ActiveIdsUnfiltered == DOMAIN rows

\* GET / : .is('deleted_at', null)
ActiveIds == {i \in DOMAIN rows : rows[i].deleted_at = NoTime}

\* GET /deleted/list : .not('deleted_at', 'is', null)
DeletedIds == {i \in DOMAIN rows : rows[i].deleted_at # NoTime}

\* GET /:id : .eq('id', id).is('deleted_at', null)
GetMatch(pid) ==
  {i \in DOMAIN rows : i = StoreId(pid) /\ rows[i].deleted_at = NoTime}

\* PUT /:id without its filter: every row is updated
UpdateMatchAll(pid) == DOMAIN rows

\* PUT /:id with the filter of get-by-id and soft-delete
UpdateMatchActive(pid) ==
  {i \in DOMAIN rows : i = StoreId(pid) /\ rows[i].deleted_at = NoTime}

\* PUT /:id : .eq('id', id)
UpdateMatch(pid) == {i \in DOMAIN rows : i = StoreId(pid)}

\* DELETE /:id without .is('deleted_at', null)
DeleteMatchAnyState(pid) == {i \in DOMAIN rows : i = StoreId(pid)}

\* DELETE /:id : .eq('id', id).is('deleted_at', null)
DeleteMatch(pid) ==
  {i \in DOMAIN rows : i = StoreId(pid) /\ rows[i].deleted_at = NoTime}

\* PUT /:id/restore : .eq('id', id)
RestoreMatch(pid) == {i \in DOMAIN rows : i = StoreId(pid)}

\* DELETE /:id : if (!id || isNaN(id))
InvalidId(pid) == pid = <<>> \/ IsNaN(pid)

\* DELETE /:id : .update({ deleted_at: new Date().toISOString() })
DeletedRow(row, t) == [row EXCEPT !.deleted_at = <<t>>]

\* PUT /:id/restore that leaves deleted_at as it is
RestoredRowKept(row) == row

\* PUT /:id/restore : .update({ deleted_at: null })
RestoredRow(row) == [row EXCEPT !.deleted_at = NoTime]

\* ------------------------------------------------------------ handlers
Init ==
  /\ rows = <<>>
  /\ nextId = 1
  /\ now = 0
  /\ req = Request("none", <<>>, NoBody)
  /\ resp = Response(0, <<>>, 0, FALSE)
  /\ trips = {}

\* POST /
Create(body) ==
  /\ rows' = [i \in DOMAIN rows \cup {nextId} |->
                IF i = nextId THEN CreateRow(body) ELSE rows[i]]
  /\ nextId' = nextId + 1
  /\ req' = Request("create", <<>>, body)
  /\ resp' = Response(201, <<>>, nextId, TRUE)
  /\ UNCHANGED <<now, trips>>

\* GET /
ListActive ==
  /\ req' = Request("list", <<>>, NoBody)
  /\ \E data \in Listings(ActiveIds) :
       /\ \A i, j \in DOMAIN data : i < j => data[i] > data[j]
       /\ resp' = Response(200, [k \in DOMAIN data |-> FormatRow(data[k])],
                           0, TRUE)
  /\ UNCHANGED <<rows, nextId, now, trips>>

\* GET /:id
GetById(pid) ==
  /\ req' = Request("get", pid, NoBody)
  /\ resp' = IF ~StoreIdOk(pid) THEN Response(500, <<>>, 0, TRUE)
             ELSE IF GetMatch(pid) = {} THEN Response(404, <<>>, 0, TRUE)
             ELSE Response(200, <<FormatRow(StoreId(pid))>>, 0, TRUE)
  /\ UNCHANGED <<rows, nextId, now, trips>>

\* PUT /:id
Update(pid, body) ==
  /\ req' = Request("update", pid, body)
  /\ IF MissingRequired(body)
     THEN /\ resp' = Response(400, <<>>, 0, FALSE)
          /\ UNCHANGED rows
     ELSE IF ~StoreIdOk(pid)
     THEN /\ resp' = Response(500, <<>>, 0, TRUE)
          /\ UNCHANGED rows
     ELSE /\ rows' = [i \in DOMAIN rows |->
                        IF i \in UpdateMatch(pid) THEN UpdateRow(rows[i], body)
                        ELSE rows[i]]
          /\ resp' = Response(IF UpdateMatch(pid) = {} THEN 404 ELSE 200,
                              <<>>, 0, TRUE)
  /\ UNCHANGED <<nextId, now, trips>>

\* DELETE /:id
Delete(pid) ==
  /\ req' = Request("delete", pid, NoBody)
  /\ IF InvalidId(pid)
     THEN /\ resp' = Response(400, <<>>, 0, FALSE)
          /\ UNCHANGED rows
     ELSE IF ~StoreIdOk(pid)
     THEN /\ resp' = Response(500, <<>>, 0, TRUE)
          /\ UNCHANGED rows
     ELSE /\ rows' = [i \in DOMAIN rows |->
                        IF i \in DeleteMatch(pid)
                        THEN DeletedRow(rows[i], now)
                        ELSE rows[i]]
          /\ resp' = Response(IF DeleteMatch(pid) = {} THEN 404 ELSE 200,
                              <<>>, 0, TRUE)
  /\ trips' = IF InvalidId(pid) \/ ~StoreIdOk(pid) THEN trips
              ELSE trips \ DeleteMatch(pid)
  /\ UNCHANGED <<nextId, now>>

\* GET /deleted/list (rows deleted at the same instant come in either order)
ListDeleted ==
  /\ req' = Request("listDeleted", <<>>, NoBody)
  /\ \E data \in Listings(DeletedIds) :
       /\ \A i, j \in DOMAIN data :
            i < j => rows[data[i]].deleted_at[1] >= rows[data[j]].deleted_at[1]
       /\ resp' = Response(200, [k \in DOMAIN data |-> FormatRow(data[k])],
                           0, TRUE)
  /\ UNCHANGED <<rows, nextId, now, trips>>

\* PUT /:id/restore
Restore(pid) ==
  /\ req' = Request("restore", pid, NoBody)
  /\ IF ~StoreIdOk(pid)
     THEN /\ resp' = Response(500, <<>>, 0, TRUE)
          /\ UNCHANGED rows
     ELSE /\ rows' = [i \in DOMAIN rows |->
                        IF i \in RestoreMatch(pid)
                        THEN RestoredRow(rows[i])
                        ELSE rows[i]]
          /\ resp' = Response(IF RestoreMatch(pid) = {} THEN 404 ELSE 200,
                              <<>>, 0, TRUE)
  /\ trips' = IF ~StoreIdOk(pid) THEN trips
              ELSE trips \cup (RestoreMatch(pid) \cap DeletedIds)
  /\ UNCHANGED <<nextId, now>>

\* time passes between two requests
Tick ==
  /\ now < MaxTime
  /\ now' = now + 1
  /\ UNCHANGED <<rows, nextId, req, resp, trips>>

\* ------------------------------------------------------------- inputs
WithText(body, f, v) == [body EXCEPT !.text[f] = v]
WithDate(body, f, v) == [body EXCEPT !.dates[f] = v]
WithMoney(body, f, v) == [body EXCEPT !.money[f] = v]

\* a complete request body: premium 1000, other_charges 50, no auth_fee
BaseBody ==
  [text |-> [f \in TextFields |-> Str(<<" ", "A", " ">>)],
   dates |-> [f \in DateFields |-> Str(<<"2", "0", "2", "4", "-", "0", "1", "-", "1", "5">>)],
   money |-> [f \in MoneyFields |->
                IF f = "premium" THEN Str(<<"1", "0", "0", "0">>)
                ELSE IF f = "other_charges" THEN Str(<<"5", "0">>)
                ELSE Undefined]]

\* another complete body, every column different from BaseBody's
OtherBody ==
  [text |-> [f \in TextFields |-> Str(<<"B">>)],
   dates |-> [f \in DateFields |-> Undefined],
   money |-> [f \in MoneyFields |-> Str(<<"7">>)]]

\* the path ids of the requests: the ids of the rows there can be, one id
\* past them, and texts that are no integer
TextPathIds == {<<"a", "b", "c">>, <<"1", ".", "5">>}
PathIds == {DecimalString(n) : n \in 1..(MaxPolicies + 1)} \cup TextPathIds
FieldPathIds == {DecimalString(n) : n \in 1..MaxFieldPolicies}

\* lifecycle specification: a complete body and one without assured
UpdateBodies == {OtherBody, WithText(OtherBody, "assured", Undefined)}

\* validation specification: a required field absent, null, empty or blank,
\* and path ids that are no integer
RequiredValues == {Undefined, Null, Str(<<>>)}
RequiredBodies ==
  {OtherBody, WithText(OtherBody, "assured", Str(<<" ">>))}
    \cup {WithText(OtherBody, f, v) : f \in RequiredText, v \in RequiredValues}
CheckedPathIds ==
  FieldPathIds \cup TextPathIds
    \cup {<<"1", "a">>, <<"a">>, <<".">>, <<"1", ".">>}

\* text specification: create with one text field of the base body varied
TextValues == {Undefined, Null, Str(<<>>), Str(<<" ">>), Str(<<" ", "a", " ", "b", " ">>)}
TextBodies ==
  {BaseBody, NoBody}
    \cup {WithText(BaseBody, f, v) : f \in TextFields, v \in TextValues}
TextUpdateBodies ==
  {OtherBody, NoBody}
    \cup {WithText(OtherBody, f, Str(<<" ", "a", " ", "b", " ">>)) : f \in {"assured", "address"}}
    \cup {WithText(OtherBody, f, Undefined) : f \in {"assured", "address"}}

\* money specification: create with premium, other_charges and auth_fee
\* varied together, update with one amount of the other body varied
PremiumValues == {Undefined, Str(<<"1", "0", "0", "0">>),
                  Str(<<"-", "1", "0", "0">>), Str(<<"a", "b", "c">>),
                  Str(<<"1", "2", ".", "5", "0">>), Str(<<" ", "7", "x">>)}
OtherChargesValues == {Undefined, Str(<<"5", "0">>), Str(<<"-", "5">>), Str(<<"x">>)}
AuthFeeValues == {Undefined, Str(<<"0">>), Str(<<"1", "0">>), Str(<<"x">>)}
MoneyBodies ==
  {WithMoney(WithMoney(WithMoney(BaseBody, "premium", p), "other_charges", o),
             "auth_fee", a) :
     p \in PremiumValues, o \in OtherChargesValues, a \in AuthFeeValues}
MoneyUpdateBodies ==
  {OtherBody, BaseBody}
    \cup {WithMoney(OtherBody, f, Str(<<"-", "5">>)) :
            f \in {"premium", "other_charges", "doc_stamps"}}
    \cup {WithMoney(OtherBody, f, Str(<<"x">>)) :
            f \in {"premium", "other_charges", "auth_fee"}}

\* date specification: create with one date field of the base body varied
DateStems == {<<"2", "0", "2", "4", "-", "0", "1", "-", "1", "5">>, ZeroDate, <<"2", "0", "2", "4", "-", "1", "3", "-", "3", "2">>}
DateTails == {<<>>, <<" ">>, <<"T", "1", "0">>, <<"0">>, <<" ", "x">>}
DateValues ==
  {Str(d \o e) : d \in DateStems, e \in DateTails}
    \cup {Str(<<" ">> \o d) : d \in DateStems}
    \cup {Undefined, Null, False, Str(<<>>), Str(<<" ">>),
          Str(JsString(False)), Str(JsString(Null)), Str(JsString(Undefined)),
          Str(<<"2", "0", "2", "4", "-", "1", "-", "1", "5">>), Str(<<"2", "0", "a", "4", "-", "0", "1", "-", "1", "5">>)}
DateBodies ==
  {WithDate(BaseBody, f, v) : f \in DateFields, v \in DateValues}
DateUpdateBodies ==
  {OtherBody}
    \cup {WithDate(OtherBody, "date_issued", Str(d \o e)) :
            d \in {<<"2", "0", "2", "4", "-", "0", "1", "-", "1", "5">>, ZeroDate}, e \in {<<>>, <<" ">>, <<"T", "1", "0">>}}

\* ------------------------------------------------------ specifications
\* the seven routes, any path id, with time passing
Next ==
  \/ nextId <= MaxPolicies /\ Create(BaseBody)
  \/ ListActive
  \/ \E pid \in PathIds : GetById(pid)
  \/ \E pid \in PathIds, body \in UpdateBodies : Update(pid, body)
  \/ \E pid \in PathIds : Delete(pid)
  \/ ListDeleted
  \/ \E pid \in PathIds : Restore(pid)
  \/ Tick

Spec == Init /\ [][Next]_vars

\* create, update and soft-delete with the validated inputs varied
NextCheck ==
  \/ nextId <= MaxFieldPolicies /\ Create(BaseBody)
  \/ \E pid \in FieldPathIds \cup {<<"a", "b", "c">>}, body \in RequiredBodies :
       Update(pid, body)
  \/ \E pid \in CheckedPathIds : Delete(pid)

SpecCheck == Init /\ [][NextCheck]_vars

\* create and update with the text fields varied
NextText ==
  \/ nextId <= MaxFieldPolicies /\ \E body \in TextBodies : Create(body)
  \/ \E pid \in FieldPathIds, body \in TextUpdateBodies : Update(pid, body)

SpecText == Init /\ [][NextText]_vars

\* create and update with the amounts varied
NextMoney ==
  \/ nextId <= MaxFieldPolicies /\ \E body \in MoneyBodies : Create(body)
  \/ \E pid \in FieldPathIds, body \in MoneyUpdateBodies : Update(pid, body)

SpecMoney == Init /\ [][NextMoney]_vars

\* create and update with the dates varied
NextDate ==
  \/ nextId <= MaxFieldPolicies /\ \E body \in DateBodies : Create(body)
  \/ \E pid \in FieldPathIds, body \in DateUpdateBodies : Update(pid, body)

SpecDate == Init /\ [][NextDate]_vars

\* ------------------------------------------------------------- claims
\* the ids of the rows of the last response
ReturnedIds == {resp.data[k].id : k \in DOMAIN resp.data}

\* the parsed amount of a request value, d when it is absent or unparsable
ParsedOr(v, d) == IF ParseFloat(v).nan THEN d ELSE ParseFloat(v).v

\* a handler answered a request in this step
Handled == <<rows, nextId, req, resp>>' # <<rows, nextId, req, resp>>

\* C1: a policy's visibility is decided by deleted_at alone.  List-active
\* returns exactly the rows whose deleted_at is null, list-deleted exactly
\* those whose deleted_at is set, and get-by-id answers 404 for a row whose
\* deleted_at is set and 200 with the row for one whose deleted_at is null.
C1_VisibilityByDeletedAt ==
  \A i \in DOMAIN rows :
    /\ req.op = "list" =>
         (resp.status = 200 /\ (i \in ReturnedIds <=> rows[i].deleted_at = NoTime))
    /\ req.op = "listDeleted" =>
         (resp.status = 200 /\ (i \in ReturnedIds <=> rows[i].deleted_at # NoTime))
    /\ (req.op = "get" /\ req.pid = DecimalString(i)) =>
         IF rows[i].deleted_at = NoTime
         THEN resp.status = 200 /\ ReturnedIds = {i}
         ELSE resp.status = 404 /\ ReturnedIds = {}

\* C1 witness: list-active answered over a store holding an active and a
\* soft-deleted row
C1_Witness ==
  /\ req.op = "list"
  /\ \E i, j \in DOMAIN rows :
       /\ rows[i].deleted_at = NoTime
       /\ rows[j].deleted_at # NoTime
       /\ i \in ReturnedIds
       /\ j \notin ReturnedIds

\* C2: soft-delete then restore is a round trip.  A policy that was
\* soft-deleted and then restored (whatever happened to other ids, and until
\* it is soft-deleted again) has deleted_at null, is in the list-active
\* result and is not in the list-deleted result.
C2_DeleteRestoreRoundTrip ==
  \A i \in trips :
    /\ i \in DOMAIN rows
    /\ rows[i].deleted_at = NoTime
    /\ req.op = "list" => i \in ReturnedIds
    /\ req.op = "listDeleted" => i \notin ReturnedIds

\* C2 witness: list-active returns a policy that was soft-deleted and
\* restored
C2_Witness ==
  \E i \in trips : req.op = "list" /\ i \in ReturnedIds

\* a request value that is absent or the empty string
AbsentOrEmpty(v) == v = Undefined \/ v = Str(<<>>)
\* a path id with a letter in it
Letters == {"a", "b", "c"}
HasLetter(pid) == \E k \in DOMAIN pid : pid[k] \in Letters
\* the three required fields are non-empty strings
RequiredGiven(body) ==
  \A f \in {"assured", "coc_number", "or_number"} :
    body.text[f].t = "string" /\ body.text[f].s # <<>>

\* C3: a validation failure never touches the store.  An update whose
\* assured, coc_number or or_number is absent or empty, and a soft-delete
\* whose path id is not numeric, answer 400, issue no Data Store call and
\* leave every row as it was.
C3_ValidationNeverTouchesStore ==
  [][(/\ Handled
      /\ \/ /\ req'.op = "update"
            /\ \E f \in {"assured", "coc_number", "or_number"} :
                 AbsentOrEmpty(req'.body.text[f])
         \/ /\ req'.op = "delete"
            /\ HasLetter(req'.pid))
     => (/\ resp'.status = 400
         /\ ~resp'.store
         /\ rows' = rows
         /\ nextId' = nextId)]_vars

\* C3 witness: an update without or_number, addressed to a stored row, was
\* answered 400
C3_Witness ==
  /\ req.op = "update"
  /\ req.body.text["or_number"] = Undefined
  /\ RequiredGiven(WithText(req.body, "or_number", Str(<<"x">>)))
  /\ \E i \in DOMAIN rows : req.pid = DecimalString(i)
  /\ resp.status = 400

\* C4: an update of an id that has no row answers 404 and creates no row:
\* the stored policies and all their fields are the same before and after.
C4_UpdateMissingIdIs404 ==
  [][(/\ Handled
      /\ req'.op = "update"
      /\ RequiredGiven(req'.body)
      /\ \E n \in 1..(MaxPolicies + 1) :
           req'.pid = DecimalString(n) /\ n \notin DOMAIN rows)
     => (/\ resp'.status = 404
         /\ rows' = rows
         /\ nextId' = nextId)]_vars

\* C4 witness: an update of an id with no row was answered 404 while the
\* store holds another row
C4_Witness ==
  /\ req.op = "update"
  /\ resp.status = 404
  /\ rows # <<>>
  /\ \E n \in 1..(MaxPolicies + 1) :
       req.pid = DecimalString(n) /\ n \notin DOMAIN rows

\* C9: soft-delete acts only on an active row.  A soft-delete of an id that
\* is already soft-deleted, or has no row, answers 404 and leaves the store
\* as it was, so the deleted_at of the first soft-delete is kept.
C9_DeleteOnlyActive ==
  [][(/\ Handled
      /\ req'.op = "delete"
      /\ \E n \in 1..(MaxPolicies + 1) :
           /\ req'.pid = DecimalString(n)
           /\ (n \in DOMAIN rows => rows[n].deleted_at # NoTime))
     => (/\ resp'.status = 404
         /\ rows' = rows)]_vars

\* C9 witness: a soft-delete of a row soft-deleted at an earlier instant was
\* answered 404
C9_Witness ==
  /\ req.op = "delete"
  /\ resp.status = 404
  /\ \E n \in DOMAIN rows :
       /\ req.pid = DecimalString(n)
       /\ rows[n].deleted_at # NoTime
       /\ rows[n].deleted_at[1] < now

\* C10: update ignores the soft-delete state.  An update with non-empty
\* assured, coc_number and or_number of a soft-deleted policy answers 200
\* and overwrites the policy's fields, leaves deleted_at as it was, and the
\* policy stays out of list-active and in list-deleted.
C10_UpdateIgnoresSoftDelete ==
  [][\A n \in DOMAIN rows :
       (/\ Handled
        /\ req'.op = "update"
        /\ RequiredGiven(req'.body)
        /\ req'.pid = DecimalString(n)
        /\ rows[n].deleted_at # NoTime)
       => (/\ resp'.status = 200
           /\ \A f \in TextFields :
                rows'[n].text[f] = Trim(req'.body.text[f].s)
           /\ rows'[n].money.premium = ParsedOr(req'.body.money["premium"], 0)
           /\ rows'[n].deleted_at = rows[n].deleted_at
           /\ n \notin ActiveIds'
           /\ n \in DeletedIds')]_vars

\* C10 witness: an update of a soft-deleted policy was answered 200 and the
\* policy, still soft-deleted, holds the fields of the request
C10_Witness ==
  /\ req.op = "update"
  /\ resp.status = 200
  /\ \E n \in DOMAIN rows :
       /\ req.pid = DecimalString(n)
       /\ rows[n].deleted_at # NoTime
       /\ rows[n].text["assured"] = <<"B">>

\* the id of the row the last request wrote, 0 when it wrote none
WrittenId ==
  IF req.op = "create" /\ resp.status = 201 THEN resp.policyId
  ELSE IF req.op = "update" /\ resp.status = 200 THEN DigitsValue(req.pid)
  ELSE 0

\* C5: create stores doc_stamps = P * 0.125, e_vat = P * 0.12,
\* lgt = P * 0.005 and total_premium = P + O + doc_stamps + e_vat + lgt + A
\* for the parsed premium P, other charges O and auth fee A, where A is
\* 50.40 when auth_fee is absent or unparsable; premium 1000 and
\* other_charges 50 with no auth_fee give 125, 120, 5 and 1350.40.
C5_CreateComputation ==
  req.op = "create" =>
    LET row == rows[resp.policyId].money
        P == ParsedOr(req.body.money["premium"], 0)
        O == ParsedOr(req.body.money["other_charges"], 0)
        A == ParsedOr(req.body.money["auth_fee"], Cents(5040))
    IN /\ row.doc_stamps * 8 = P
       /\ row.e_vat * 25 = P * 3
       /\ row.lgt * 200 = P
       /\ row.total_premium = P + O + row.doc_stamps + row.e_vat + row.lgt + A
       /\ (/\ req.body.money["premium"] = Str(<<"1", "0", "0", "0">>)
           /\ req.body.money["other_charges"] = Str(<<"5", "0">>)
           /\ req.body.money["auth_fee"] = Undefined)
          => (/\ row.doc_stamps = Cents(12500)
              /\ row.e_vat = Cents(12000)
              /\ row.lgt = Cents(500)
              /\ row.total_premium = Cents(135040))

\* C6 as claimed: validateDate returns its input unchanged for every string
\* that is exactly YYYY-MM-DD, and null for every string that starts with
\* such a date and goes on.
C6_AsClaimed ==
  \A f \in DateFields :
    LET v == req.body.dates[f]
    IN (WrittenId # 0 /\ v.t = "string") =>
         /\ DateExact(v.s) => rows[WrittenId].dates[f] = v
         /\ (DatePrefix(v.s) /\ Len(v.s) > 10) =>
              rows[WrittenId].dates[f] = Null

\* C6 amended: validateDate returns its input unchanged for every string
\* that is exactly YYYY-MM-DD other than 0000-00-00, for which it returns
\* null; it returns null for every string that starts with such a date and
\* goes on with anything but white space, and the date without the white
\* space when only white space follows.
C6_ValidateDateExactOrNull ==
  \A f \in DateFields :
    LET v == req.body.dates[f]
        more == {k \in DOMAIN v.s : k > 10}
    IN (WrittenId # 0 /\ v.t = "string") =>
         /\ (DateExact(v.s) /\ v.s # ZeroDate) => rows[WrittenId].dates[f] = v
         /\ v.s = ZeroDate => rows[WrittenId].dates[f] = Null
         /\ (DatePrefix(v.s) /\ \E k \in more : v.s[k] \notin WhiteSpace) =>
              rows[WrittenId].dates[f] = Null
         /\ (DatePrefix(v.s) /\ more # {}
               /\ \A k \in more : v.s[k] \in WhiteSpace) =>
              rows[WrittenId].dates[f] = Str(SubSeq(v.s, 1, 10))

\* C6 witness: a create stored one date that was given exactly, and null for
\* one given as a date followed by a time
C6_Witness ==
  /\ req.op = "create"
  /\ \E f, g \in DateFields :
       /\ DateExact(req.body.dates[f].s)
       /\ rows[resp.policyId].dates[f] = req.body.dates[f]
       /\ DatePrefix(req.body.dates[g].s)
       /\ "T" \in {req.body.dates[g].s[k] : k \in DOMAIN req.body.dates[g].s}
       /\ rows[resp.policyId].dates[g] = Null

\* C7: after any creates and updates, the premium and other_charges of every
\* stored policy are non-negative, and are 0 when the value given was
\* unparsable.
C7_AmountsNonNegative ==
  /\ \A i \in DOMAIN rows :
       rows[i].money.premium >= 0 /\ rows[i].money.other_charges >= 0
  /\ WrittenId # 0 =>
       \A f \in {"premium", "other_charges"} :
         ParseFloat(req.body.money[f]).nan => rows[WrittenId].money[f] = 0

\* C8: create stores every text field as the trimmed input, and as the empty
\* string when the field is absent from the request body.
C8_CreateTextTrimmedOrEmpty ==
  req.op = "create" =>
    \A f \in TextFields :
      LET v == req.body.text[f]
      IN /\ v.t = "string" => rows[resp.policyId].text[f] = Trim(v.s)
         /\ v = Undefined => rows[resp.policyId].text[f] = <<>>

====
